---- MODULE Spec2Model ----
(***************************************************************************)
(* Model of the casys_engine graph index: the in-memory indexed store      *)
(* (index/mod.rs) and its segment persistence and WAL replay               *)
(* (index/persistence.rs), together with the caller's durability protocol  *)
(* (log a mutation, apply it, flush, restart by load + replay).            *)
(***************************************************************************)
EXTENDS Integers, Sequences, FiniteSets, TLC

(***************************************************************************)
(* Bounds of the model.                                                    *)
(***************************************************************************)
\* number of mutating calls (add_node, add_edge, replay_wal) in a history
MaxOps == 3
\* number of flush_to_segments calls in a history
MaxFlush == 1

\* NodeId = EdgeId = u64: ids are counted modulo 2^64; the model scales the
\* width down (ids modulo IdModulus) and keeps every bound below it.
IdModulus == 16

(***************************************************************************)
(* Input domains.                                                          *)
(***************************************************************************)
Labels == {"A", "B"}
EdgeTypes == {"KNOWS", "LIKES"}
NodeRefs == 1..2
\* the ids replayed records carry: contiguous with the counter, past it, and
\* the largest id of the width (u64::MAX)
RecordIds == {1, 2, IdModulus - 1}

EmptyMap == [k \in {} |-> 0]
PropMaps == {EmptyMap, [p |-> 1]}

\* the (labels, properties) a node is inserted with
NodeInputs == {<<(<< >>), EmptyMap>>, <<(<<"A">>), [p |-> 1]>>, <<(<<"A", "B">>), EmptyMap>>}

\* the (from, to, edge_type, properties) an edge is inserted with
EdgeInputs ==
    {<<1, 2, "KNOWS", EmptyMap>>, <<1, 2, "LIKES", [p |-> 1]>>,
     <<2, 1, "KNOWS", [p |-> 1]>>, <<1, 1, "LIKES", EmptyMap>>}

None == [some |-> FALSE]
Some(v) == [some |-> TRUE, v |-> v]

Range(f) == {f[i] : i \in DOMAIN f}

\* every order in which a HashMap can hand out the keys in S
Orderings(S) == {f \in [1..Cardinality(S) -> S] : \A i, j \in 1..Cardinality(S) : i # j => f[i] # f[j]}

(***************************************************************************)
(* HashMap and u64 primitives.                                             *)
(***************************************************************************)
\* HashMap::insert: the value under k is replaced
Put(m, k, v) == [x \in (DOMAIN m) \cup {k} |-> IF x = k THEN v ELSE m[x]]

\* map.entry(k).or_insert_with(Vec::new).push(id)
entry_push(m, k, id) == Put(m, k, Append(IF k \in DOMAIN m THEN m[k] ELSE << >>, id))

\* u64 increment: id + 1 and counter += 1 in u64 arithmetic, which wraps at the
\* width (overflow checks off, the release profile)
U64Add1(x) == (x + 1) % IdModulus

(***************************************************************************)
(* serde_json values and bytes.                                            *)
(***************************************************************************)
JNull == [t |-> "null"]
JNum(n) == [t |-> "num", n |-> n]
JStr(s) == [t |-> "str", s |-> s]
JArr(a) == [t |-> "arr", a |-> a]
JObj(o) == [t |-> "obj", o |-> o]

\* json[key]: Null when json is no object or has no such key
Index(json, key) == IF json.t = "obj" /\ key \in DOMAIN json.o THEN json.o[key] ELSE JNull

\* json.as_u64().unwrap_or(0): a negative number is no u64
as_u64_or_0(json) == IF json.t = "num" /\ json.n >= 0 THEN json.n ELSE 0

\* json.as_str().unwrap_or("")
as_str_or_empty(json) == IF json.t = "str" THEN json.s ELSE ""

\* serde_json::from_value::<Vec<String>>(json).unwrap_or_default()
labels_from_value(json) ==
    IF json.t = "arr" /\ \A i \in DOMAIN json.a : json.a[i].t = "str"
    THEN [i \in DOMAIN json.a |-> json.a[i].s]
    ELSE << >>

\* Vec<String> as a JSON array
labels_to_value(labels) == JArr([i \in DOMAIN labels |-> JStr(labels[i])])

\* serde_json::to_vec: the complete text of the value
to_vec(json) == [kind |-> "text", json |-> json]

\* what a file holds after File::create and before write_all has completed:
\* a proper prefix of the text (possibly empty)
TornBytes == [kind |-> "torn", json |-> JNull]

\* serde_json::from_slice: fails on anything but a complete text
from_slice(data) == IF data.kind = "text" THEN [ok |-> TRUE, json |-> data.json] ELSE [ok |-> FALSE, json |-> JNull]

\* the property value model (crate::exec::executor::Value): JSON projection
to_json(v) == JNum(v)

from_json(json) == IF json.t = "num" THEN Some(json.n) ELSE None

serialize_props(props) == JObj([k \in DOMAIN props |-> to_json(props[k])])

deserialize_props(json) ==
    IF json.t = "obj"
    THEN LET keep == {k \in DOMAIN json.o : from_json(json.o[k]).some}
         IN  [k \in keep |-> from_json(json.o[k]).v]
    ELSE EmptyMap

(***************************************************************************)
(* The in-memory store (index/mod.rs).                                     *)
(***************************************************************************)
Node(id, labels, properties) == [id |-> id, labels |-> labels, properties |-> properties]

Edge(id, from, to, edge_type, properties) ==
    [id |-> id, from_node |-> from, to_node |-> to, edge_type |-> edge_type, properties |-> properties]

\* InMemoryGraphStore::new
new ==
    [nodes |-> EmptyMap, edges |-> EmptyMap, label_index |-> EmptyMap,
     adjacency_out |-> EmptyMap, adjacency_in |-> EmptyMap,
     next_node_id |-> 1, next_edge_id |-> 1]

\* for label in labels { label_index.entry(label).or_insert_with(Vec::new).push(id) }
RECURSIVE push_labels(_, _, _)
push_labels(index, labels, id) ==
    IF labels = << >> THEN index
    ELSE push_labels(entry_push(index, Head(labels), id), Tail(labels), id)

\* if id >= counter { counter = id + 1 }
advance(counter, id) == IF id >= counter THEN U64Add1(id) ELSE counter

\* nodes.insert(id, node) and the label index update
insert_node(s, node) ==
    [s EXCEPT !.nodes = Put(@, node.id, node),
              !.label_index = push_labels(@, node.labels, node.id)]

\* edges.insert(id, edge) and the two adjacency updates
insert_edge(s, edge) ==
    [s EXCEPT !.edges = Put(@, edge.id, edge),
              !.adjacency_out = entry_push(@, edge.from_node, edge.id),
              !.adjacency_in = entry_push(@, edge.to_node, edge.id)]

\* GraphWriteStore::add_node: Ok(id) and the store it leaves
add_node(s, labels, properties) ==
    LET id == s.next_node_id
        s1 == [s EXCEPT !.next_node_id = U64Add1(id)]
    IN  [ok |-> TRUE, id |-> id, store |-> insert_node(s1, Node(id, labels, properties))]

\* mutant of add_edge: referential integrity is enforced, an edge with a
\* missing endpoint is refused
add_edge_checked(s, from, to, edge_type, properties) ==
    LET id == s.next_edge_id
        s1 == [s EXCEPT !.next_edge_id = U64Add1(id)]
    IN  IF {from, to} \subseteq DOMAIN s.nodes
        THEN [ok |-> TRUE, id |-> id, store |-> insert_edge(s1, Edge(id, from, to, edge_type, properties))]
        ELSE [ok |-> FALSE, id |-> id, store |-> s]

\* GraphWriteStore::add_edge: Ok(id) and the store it leaves
add_edge(s, from, to, edge_type, properties) ==
    LET id == s.next_edge_id
        s1 == [s EXCEPT !.next_edge_id = U64Add1(id)]
    IN  [ok |-> TRUE, id |-> id, store |-> insert_edge(s1, Edge(id, from, to, edge_type, properties))]

\* GraphReadStore::scan_by_label
scan_by_label(s, label) ==
    IF label \in DOMAIN s.label_index
    THEN LET ids == SelectSeq(s.label_index[label], LAMBDA id : id \in DOMAIN s.nodes)
         IN  [i \in DOMAIN ids |-> s.nodes[ids[i]]]
    ELSE << >>

\* GraphReadStore::get_node
get_node(s, id) == IF id \in DOMAIN s.nodes THEN Some(s.nodes[id]) ELSE None

\* the edge filter of get_neighbors / get_neighbors_incoming
type_matches(edge, edge_type) == edge_type.some => edge.edge_type = edge_type.v

\* mutant of get_neighbors: the filter keeps the edges of the other types
get_neighbors_filter_inverted(s, node_id, edge_type) ==
    IF node_id \in DOMAIN s.adjacency_out
    THEN LET ids == SelectSeq(s.adjacency_out[node_id],
                       LAMBDA e : /\ e \in DOMAIN s.edges
                                  /\ (edge_type.some => s.edges[e].edge_type # edge_type.v)
                                  /\ s.edges[e].to_node \in DOMAIN s.nodes)
         IN  [i \in DOMAIN ids |-> <<s.edges[ids[i]], s.nodes[s.edges[ids[i]].to_node]>>]
    ELSE << >>

\* GraphReadStore::get_neighbors: (edge, destination node) pairs
get_neighbors(s, node_id, edge_type) ==
    IF node_id \in DOMAIN s.adjacency_out
    THEN LET ids == SelectSeq(s.adjacency_out[node_id],
                       LAMBDA e : /\ e \in DOMAIN s.edges
                                  /\ type_matches(s.edges[e], edge_type)
                                  /\ s.edges[e].to_node \in DOMAIN s.nodes)
         IN  [i \in DOMAIN ids |-> <<s.edges[ids[i]], s.nodes[s.edges[ids[i]].to_node]>>]
    ELSE << >>

\* GraphReadStore::get_neighbors_incoming: (edge, source node) pairs
get_neighbors_incoming(s, node_id, edge_type) ==
    IF node_id \in DOMAIN s.adjacency_in
    THEN LET ids == SelectSeq(s.adjacency_in[node_id],
                       LAMBDA e : /\ e \in DOMAIN s.edges
                                  /\ type_matches(s.edges[e], edge_type)
                                  /\ s.edges[e].from_node \in DOMAIN s.nodes)
         IN  [i \in DOMAIN ids |-> <<s.edges[ids[i]], s.nodes[s.edges[ids[i]].from_node]>>]
    ELSE << >>

(***************************************************************************)
(* WAL records and replay (index/persistence.rs).                          *)
(***************************************************************************)
AddNodeRec(id, labels, properties) ==
    [type |-> "AddNode", id |-> id, labels |-> labels, properties |-> properties]

AddEdgeRec(id, from, to, edge_type, properties) ==
    [type |-> "AddEdge", id |-> id, from_node |-> from, to_node |-> to,
     edge_type |-> edge_type, properties |-> properties]

\* the result of from_bytes: Ok(record) or Err(StorageIo)
NoRecord == [type |-> "none"]
Ok(record) == [ok |-> TRUE, record |-> record]
Err == [ok |-> FALSE, record |-> NoRecord]

\* WalRecord::to_bytes
to_bytes(record) ==
    IF record.type = "AddNode"
    THEN to_vec(JObj([type |-> JStr("add_node"),
                      id |-> JNum(record.id),
                      labels |-> labels_to_value(record.labels),
                      properties |-> serialize_props(record.properties)]))
    ELSE to_vec(JObj([type |-> JStr("add_edge"),
                      id |-> JNum(record.id),
                      from |-> JNum(record.from_node),
                      to |-> JNum(record.to_node),
                      edge_type |-> JStr(record.edge_type),
                      properties |-> serialize_props(record.properties)]))

\* mutant of parse_add_node: a payload without a numeric id is refused
parse_add_node_strict(json) ==
    IF Index(json, "id").t # "num" THEN Err
    ELSE Ok(AddNodeRec(as_u64_or_0(Index(json, "id")),
                       labels_from_value(Index(json, "labels")),
                       deserialize_props(Index(json, "properties"))))

\* from_bytes, the "add_node" arm
parse_add_node(json) ==
    LET id == as_u64_or_0(Index(json, "id"))
        labels == labels_from_value(Index(json, "labels"))
        properties == deserialize_props(Index(json, "properties"))
    IN  Ok(AddNodeRec(id, labels, properties))

\* mutant of parse_add_edge: the edge type is read under the key the edges
\* segment uses ("type") and not under the key to_bytes writes ("edge_type")
parse_add_edge_segment_key(json) ==
    LET id == as_u64_or_0(Index(json, "id"))
        from_node == as_u64_or_0(Index(json, "from"))
        to_node == as_u64_or_0(Index(json, "to"))
        edge_type == as_str_or_empty(Index(json, "type"))
        properties == deserialize_props(Index(json, "properties"))
    IN  Ok(AddEdgeRec(id, from_node, to_node, edge_type, properties))

\* from_bytes, the "add_edge" arm
parse_add_edge(json) ==
    LET id == as_u64_or_0(Index(json, "id"))
        from_node == as_u64_or_0(Index(json, "from"))
        to_node == as_u64_or_0(Index(json, "to"))
        edge_type == as_str_or_empty(Index(json, "edge_type"))
        properties == deserialize_props(Index(json, "properties"))
    IN  Ok(AddEdgeRec(id, from_node, to_node, edge_type, properties))

\* mutant of from_bytes: a payload whose discriminant is not recognized is
\* read as an add_node record
from_bytes_default_variant(data) ==
    LET parsed == from_slice(data)
        rec_type == Index(parsed.json, "type")
    IN  IF ~parsed.ok THEN Err
        ELSE IF rec_type.t # "str" THEN Err
        ELSE IF rec_type.s = "add_edge" THEN parse_add_edge(parsed.json)
        ELSE parse_add_node(parsed.json)

\* WalRecord::from_bytes
from_bytes(data) ==
    LET parsed == from_slice(data)
        rec_type == Index(parsed.json, "type")
    IN  IF ~parsed.ok THEN Err
        ELSE IF rec_type.t # "str" THEN Err
        ELSE IF rec_type.s = "add_node" THEN parse_add_node(parsed.json)
        ELSE IF rec_type.s = "add_edge" THEN parse_add_edge(parsed.json)
        ELSE Err

\* mutant of replay_record: the AddNode arm advances the edge counter too
replay_record_shared_counter(s, record) ==
    IF record.type = "AddNode"
    THEN LET s1 == insert_node(s, Node(record.id, record.labels, record.properties))
         IN  [s1 EXCEPT !.next_node_id = advance(@, record.id),
                        !.next_edge_id = advance(@, record.id)]
    ELSE LET s1 == insert_edge(s, Edge(record.id, record.from_node, record.to_node,
                                        record.edge_type, record.properties))
         IN  [s1 EXCEPT !.next_edge_id = advance(@, record.id)]

\* one iteration of replay_wal's loop
replay_record(s, record) ==
    IF record.type = "AddNode"
    THEN LET s1 == insert_node(s, Node(record.id, record.labels, record.properties))
         IN  [s1 EXCEPT !.next_node_id = advance(@, record.id)]
    ELSE LET s1 == insert_edge(s, Edge(record.id, record.from_node, record.to_node,
                                        record.edge_type, record.properties))
         IN  [s1 EXCEPT !.next_edge_id = advance(@, record.id)]

\* InMemoryGraphStore::replay_wal: the store after Ok(())
RECURSIVE replay_wal(_, _)
replay_wal(s, records) ==
    IF records = << >> THEN s
    ELSE replay_wal(replay_record(s, Head(records)), Tail(records))

(***************************************************************************)
(* Segment files (index/persistence.rs).                                   *)
(***************************************************************************)
\* a path on disk: no file, or a file and its bytes
NoFile == [exists |-> FALSE, data |-> TornBytes]
FileOf(data) == [exists |-> TRUE, data |-> data]

node_to_json(n) ==
    JObj([id |-> JNum(n.id), labels |-> labels_to_value(n.labels),
          properties |-> serialize_props(n.properties)])

edge_to_json(e) ==
    JObj([id |-> JNum(e.id), from |-> JNum(e.from_node), to |-> JNum(e.to_node),
          type |-> JStr(e.edge_type), properties |-> serialize_props(e.properties)])

\* the bytes write_nodes_segment writes when self.nodes.values() yields the
\* nodes in the order `order` (a sequence of the table's keys)
nodes_segment_bytes(s, order) ==
    to_vec(JObj([count |-> JNum(Len(order)),
                 nodes |-> JArr([i \in DOMAIN order |-> node_to_json(s.nodes[order[i]])])]))

\* the bytes write_edges_segment writes under iteration order `order`
edges_segment_bytes(s, order) ==
    to_vec(JObj([count |-> JNum(Len(order)),
                 edges |-> JArr([i \in DOMAIN order |-> edge_to_json(s.edges[order[i]])])]))

\* the body of load_nodes_segment's loop over json["nodes"]
RECURSIVE load_nodes_array(_, _)
load_nodes_array(s, arr) ==
    IF arr = << >> THEN s
    ELSE LET node_json == Head(arr)
             id == as_u64_or_0(Index(node_json, "id"))
             labels == labels_from_value(Index(node_json, "labels"))
             properties == deserialize_props(Index(node_json, "properties"))
             s1 == insert_node(s, Node(id, labels, properties))
             s2 == [s1 EXCEPT !.next_node_id = advance(@, id)]
         IN  load_nodes_array(s2, Tail(arr))

\* load_nodes_segment: parse error, or the store with the file's nodes added
load_nodes_segment(s, data) ==
    LET parsed == from_slice(data)
        nodes_array == Index(parsed.json, "nodes")
    IN  IF ~parsed.ok THEN [ok |-> FALSE, store |-> s]
        ELSE IF nodes_array.t = "arr" THEN [ok |-> TRUE, store |-> load_nodes_array(s, nodes_array.a)]
        ELSE [ok |-> TRUE, store |-> s]

\* the body of load_edges_segment's loop over json["edges"]
RECURSIVE load_edges_array(_, _)
load_edges_array(s, arr) ==
    IF arr = << >> THEN s
    ELSE LET edge_json == Head(arr)
             id == as_u64_or_0(Index(edge_json, "id"))
             from_node == as_u64_or_0(Index(edge_json, "from"))
             to_node == as_u64_or_0(Index(edge_json, "to"))
             edge_type == as_str_or_empty(Index(edge_json, "type"))
             properties == deserialize_props(Index(edge_json, "properties"))
             s1 == insert_edge(s, Edge(id, from_node, to_node, edge_type, properties))
             s2 == [s1 EXCEPT !.next_edge_id = advance(@, id)]
         IN  load_edges_array(s2, Tail(arr))

\* load_edges_segment: parse error, or the store with the file's edges added
load_edges_segment(s, data) ==
    LET parsed == from_slice(data)
        edges_array == Index(parsed.json, "edges")
    IN  IF ~parsed.ok THEN [ok |-> FALSE, store |-> s]
        ELSE IF edges_array.t = "arr" THEN [ok |-> TRUE, store |-> load_edges_array(s, edges_array.a)]
        ELSE [ok |-> TRUE, store |-> s]

\* mutant of load_from_segments: the two files are opened without the
\* exists() tests, so an absent file is an open error
load_from_segments_requires_files(nodes_file, edges_file) ==
    IF ~nodes_file.exists \/ ~edges_file.exists THEN [ok |-> FALSE, store |-> new]
    ELSE LET r1 == load_nodes_segment(new, nodes_file.data)
         IN  IF ~r1.ok THEN [ok |-> FALSE, store |-> new]
             ELSE LET r2 == load_edges_segment(r1.store, edges_file.data)
                  IN  IF r2.ok THEN r2 ELSE [ok |-> FALSE, store |-> new]

\* InMemoryGraphStore::load_from_segments on the two paths' contents
load_from_segments(nodes_file, edges_file) ==
    LET r1 == IF nodes_file.exists THEN load_nodes_segment(new, nodes_file.data)
              ELSE [ok |-> TRUE, store |-> new]
    IN  IF ~r1.ok THEN [ok |-> FALSE, store |-> new]
        ELSE IF edges_file.exists
             THEN LET r2 == load_edges_segment(r1.store, edges_file.data)
                  IN  IF r2.ok THEN r2 ELSE [ok |-> FALSE, store |-> new]
             ELSE r1

(***************************************************************************)
(* The system: one process owning the store, the segment directory on      *)
(* disk, and the caller's write-ahead log.                                 *)
(***************************************************************************)
VARIABLES
    store,          \* the process's InMemoryGraphStore
    pc,             \* where the process is: "idle", a step of flush_to_segments,
                    \* "down" (crashed), "loaded", "load_failed"
    dir,            \* whether the segments directory exists
    nodes_seg,      \* nodes.seg
    edges_seg,      \* edges.seg
    wal,            \* the WAL records logged since the last completed flush
    ret,            \* the result of the last call: "ok", "err", or "none" (no call
                    \* yet, or a call that has not returned)
    issued_nodes,   \* history: the ids add_node returned, in order
    issued_edges,   \* history: the ids add_edge returned, in order
    pre_crash,      \* history: the store and the pc at the last crash
    synced,         \* history: the segments are those of the last completed flush
    count,          \* history: the mutating calls and the flushes so far
    wire            \* a WAL record on its way through to_bytes / from_bytes

vars == <<store, pc, dir, nodes_seg, edges_seg, wal, ret, issued_nodes, issued_edges,
          pre_crash, synced, count, wire>>

\* the state of the store, the disk and the log
core == <<store, pc, dir, nodes_seg, edges_seg, wal, ret, issued_nodes, issued_edges,
          pre_crash, synced, count>>

disk == <<dir, nodes_seg, edges_seg>>
history == <<issued_nodes, issued_edges, pre_crash>>

FlushPcs == {"create_nodes", "write_nodes", "sync_nodes", "create_edges", "write_edges", "sync_edges"}

\* the records replay_wal is called with
NodeRecords == {AddNodeRec(id, n[1], n[2]) : id \in RecordIds, n \in NodeInputs}
EdgeRecords == {AddEdgeRec(id, e[1], e[2], e[3], e[4]) : id \in RecordIds, e \in EdgeInputs}
WalRecords == NodeRecords \cup EdgeRecords

Init ==
    /\ store = new
    /\ pc = "idle"
    /\ dir = FALSE
    /\ nodes_seg = NoFile
    /\ edges_seg = NoFile
    /\ wal = << >>
    /\ ret = "none"
    /\ issued_nodes = << >>
    /\ issued_edges = << >>
    /\ pre_crash = [store |-> new, pc |-> "idle"]
    /\ synced = TRUE
    /\ count = [ops |-> 0, flushes |-> 0]
    /\ wire = [sent |-> None, payload |-> TornBytes, result |-> None]

\* the caller logs the mutation and applies it: add_node
AddNode(labels, properties) ==
    /\ pc = "idle"
    /\ UNCHANGED wire
    /\ count.ops < MaxOps
    /\ LET r == add_node(store, labels, properties)
       IN  /\ store' = r.store
           /\ wal' = Append(wal, AddNodeRec(r.id, labels, properties))
           /\ issued_nodes' = Append(issued_nodes, r.id)
           /\ ret' = IF r.ok THEN "ok" ELSE "err"
    /\ count' = [count EXCEPT !.ops = @ + 1]
    /\ UNCHANGED <<pc, disk, issued_edges, pre_crash, synced>>

\* the caller logs the mutation and applies it: add_edge
AddEdge(from, to, edge_type, properties) ==
    /\ pc = "idle"
    /\ UNCHANGED wire
    /\ count.ops < MaxOps
    /\ LET r == add_edge(store, from, to, edge_type, properties)
       IN  /\ store' = r.store
           /\ wal' = Append(wal, AddEdgeRec(r.id, from, to, edge_type, properties))
           /\ issued_edges' = Append(issued_edges, r.id)
           /\ ret' = IF r.ok THEN "ok" ELSE "err"
    /\ count' = [count EXCEPT !.ops = @ + 1]
    /\ UNCHANGED <<pc, disk, issued_nodes, pre_crash, synced>>

\* replay_wal on the live store, with records that are kept in the log
Replay(records) ==
    /\ pc = "idle"
    /\ UNCHANGED wire
    /\ count.ops < MaxOps
    /\ store' = replay_wal(store, records)
    /\ wal' = wal \o records
    /\ ret' = "ok"
    /\ count' = [count EXCEPT !.ops = @ + 1]
    /\ UNCHANGED <<pc, disk, history, synced>>

\* mutant of FlushFault: the error of write_nodes_segment is recorded and the
\* flush goes on to edges.seg
FlushFaultSwallowed ==
    /\ pc' = IF pc \in {"create_nodes", "write_nodes", "sync_nodes"} THEN "create_edges" ELSE "idle"
    /\ ret' = "err"

\* an I/O fault in a step of flush_to_segments: the `?` returns the error
FlushFault ==
    /\ pc' = "idle"
    /\ ret' = "err"

\* flush_to_segments: fs::create_dir_all(&segments_dir)
FlushBegin ==
    /\ pc = "idle"
    /\ UNCHANGED wire
    /\ count.flushes < MaxFlush
    /\ count' = [count EXCEPT !.flushes = @ + 1]
    /\ \/ /\ dir' = TRUE
          /\ pc' = "create_nodes"
          /\ ret' = "none"
       \/ /\ FlushFault
          /\ UNCHANGED dir
    /\ UNCHANGED <<store, nodes_seg, edges_seg, wal, history, synced>>

\* write_nodes_segment: File::create(path) truncates nodes.seg
FlushCreateNodes ==
    /\ pc = "create_nodes"
    /\ UNCHANGED wire
    /\ \/ /\ nodes_seg' = FileOf(TornBytes)
          /\ synced' = FALSE
          /\ pc' = "write_nodes"
          /\ UNCHANGED ret
       \/ /\ FlushFault
          /\ UNCHANGED <<nodes_seg, synced>>
    /\ UNCHANGED count
    /\ UNCHANGED <<store, dir, edges_seg, wal, history>>

\* write_nodes_segment: file.write_all(&data)
FlushWriteNodes ==
    /\ pc = "write_nodes"
    /\ UNCHANGED wire
    /\ \/ /\ \E order \in Orderings(DOMAIN store.nodes) :
                nodes_seg' = FileOf(nodes_segment_bytes(store, order))
          /\ pc' = "sync_nodes"
          /\ UNCHANGED ret
       \/ /\ FlushFault
          /\ UNCHANGED nodes_seg
    /\ UNCHANGED count
    /\ UNCHANGED <<store, dir, edges_seg, wal, history, synced>>

\* write_nodes_segment: file.sync_all()
FlushSyncNodes ==
    /\ pc = "sync_nodes"
    /\ UNCHANGED wire
    /\ \/ /\ pc' = "create_edges"
          /\ UNCHANGED ret
       \/ FlushFault
    /\ UNCHANGED count
    /\ UNCHANGED <<store, disk, wal, history, synced>>

\* write_edges_segment: File::create(path) truncates edges.seg
FlushCreateEdges ==
    /\ pc = "create_edges"
    /\ UNCHANGED wire
    /\ \/ /\ edges_seg' = FileOf(TornBytes)
          /\ pc' = "write_edges"
          /\ UNCHANGED ret
       \/ /\ FlushFault
          /\ UNCHANGED edges_seg
    /\ UNCHANGED count
    /\ UNCHANGED <<store, dir, nodes_seg, wal, history, synced>>

\* write_edges_segment: file.write_all(&data)
FlushWriteEdges ==
    /\ pc = "write_edges"
    /\ UNCHANGED wire
    /\ \/ /\ \E order \in Orderings(DOMAIN store.edges) :
                edges_seg' = FileOf(edges_segment_bytes(store, order))
          /\ pc' = "sync_edges"
          /\ UNCHANGED ret
       \/ /\ FlushFault
          /\ UNCHANGED edges_seg
    /\ UNCHANGED count
    /\ UNCHANGED <<store, dir, nodes_seg, wal, history, synced>>

\* write_edges_segment: file.sync_all(), then flush_to_segments returns Ok(());
\* the caller discards the log up to the flush
FlushSyncEdges ==
    /\ pc = "sync_edges"
    /\ UNCHANGED wire
    /\ \/ /\ pc' = "idle"
          /\ ret' = "ok"
          /\ wal' = << >>
          /\ synced' = TRUE
       \/ /\ FlushFault
          /\ UNCHANGED <<wal, synced>>
    /\ UNCHANGED count
    /\ UNCHANGED <<store, disk, history>>

\* the process dies: the store is lost, the files and the log stay
Crash ==
    /\ pc \in {"idle"} \cup FlushPcs
    /\ UNCHANGED wire
    /\ pre_crash' = [store |-> store, pc |-> pc]
    /\ store' = new
    /\ pc' = "down"
    /\ ret' = "none"
    /\ UNCHANGED <<disk, wal, issued_nodes, issued_edges, synced, count>>

\* restart: load_from_segments
Load ==
    /\ pc = "down"
    /\ UNCHANGED wire
    /\ LET r == load_from_segments(nodes_seg, edges_seg)
       IN  /\ store' = r.store
           /\ pc' = IF r.ok THEN "loaded" ELSE "load_failed"
           /\ ret' = IF r.ok THEN "ok" ELSE "err"
    /\ UNCHANGED <<disk, wal, history, synced, count>>

\* restart: replay_wal on the log
Recover ==
    /\ pc = "loaded"
    /\ UNCHANGED wire
    /\ store' = replay_wal(store, wal)
    /\ pc' = "idle"
    /\ ret' = "ok"
    /\ UNCHANGED <<disk, wal, history, synced, count>>

Next ==
    \/ \E n \in NodeInputs : AddNode(n[1], n[2])
    \/ \E e \in EdgeInputs : AddEdge(e[1], e[2], e[3], e[4])
    \/ \E record \in WalRecords : Replay(<<record>>)
    \/ FlushBegin
    \/ FlushCreateNodes
    \/ FlushWriteNodes
    \/ FlushSyncNodes
    \/ FlushCreateEdges
    \/ FlushWriteEdges
    \/ FlushSyncEdges
    \/ Crash
    \/ Load
    \/ Recover

Spec == Init /\ [][Next]_vars

(***************************************************************************)
(* WAL records on the wire: to_bytes and from_bytes as the log's writer    *)
(* and reader use them.                                                    *)
(***************************************************************************)
\* the records the writer encodes
WireNodeRecords ==
    {AddNodeRec(id, labels, properties) :
        id \in {0, 1, IdModulus - 1},
        labels \in {<< >>, <<"A">>, <<"A", "A">>, <<"B", "A">>},
        properties \in PropMaps}

WireEdgeRecords ==
    {AddEdgeRec(id, from, to, edge_type, properties) :
        id \in {0, 1, IdModulus - 1}, from \in {0, 2}, to \in {0, 2},
        edge_type \in {"", "KNOWS"}, properties \in PropMaps}

WireRecords == WireNodeRecords \cup WireEdgeRecords

\* the payloads the reader is handed: JSON objects with each field present,
\* missing or of another type, JSON texts that are no object, and bytes that
\* are no JSON text
Absent == [t |-> "absent"]

object_of(fields) == JObj([k \in {x \in DOMAIN fields : fields[x] # Absent} |-> fields[k]])

TypeChoices == {Absent, JNum(1), JStr("add_node"), JStr("add_edge"), JStr("delete_node"), JStr("")}
IdChoices == {Absent, JNum(2), JNum(IdModulus - 1), JStr("2"), JNum(-1)}
LabelsChoices == {Absent, JArr(<<JStr("A"), JStr("A")>>), JArr(<<JNum(1)>>), JStr("A")}
PropertiesChoices == {Absent, JObj([p |-> JNum(1), q |-> JNull]), JArr(<< >>)}
EndpointChoices == {Absent, JNum(1), JStr("1")}
EdgeTypeChoices == {Absent, JStr("KNOWS"), JNum(7)}

NodePayloads ==
    {to_vec(object_of([type |-> ty, id |-> id, labels |-> labels, properties |-> properties])) :
        ty \in TypeChoices, id \in IdChoices, labels \in LabelsChoices,
        properties \in PropertiesChoices}

EdgePayloads ==
    {to_vec(object_of([type |-> ty, id |-> id, from |-> from, to |-> to,
                       edge_type |-> edge_type, properties |-> properties])) :
        ty \in TypeChoices, id \in {Absent, JNum(2), JStr("2")}, from \in EndpointChoices,
        to \in EndpointChoices, edge_type \in EdgeTypeChoices, properties \in PropertiesChoices}

OtherPayloads ==
    {TornBytes, to_vec(JNull), to_vec(JNum(1)), to_vec(JArr(<< >>)), to_vec(JStr("add_node"))}

Payloads == NodePayloads \cup EdgePayloads \cup OtherPayloads

\* the writer serializes a record
Encode(record) ==
    /\ wire' = [sent |-> Some(record), payload |-> to_bytes(record), result |-> None]
    /\ UNCHANGED core

\* the reader is handed a payload from the log
Receive(data) ==
    /\ wire' = [sent |-> None, payload |-> data, result |-> None]
    /\ UNCHANGED core

\* the reader parses the payload
Decode ==
    /\ ~wire.result.some
    /\ wire' = [wire EXCEPT !.result = Some(from_bytes(wire.payload))]
    /\ UNCHANGED core

NextWal ==
    \/ \E record \in WireRecords : Encode(record)
    \/ \E data \in Payloads : Receive(data)
    \/ Decode

SpecWal == Init /\ [][NextWal]_vars

(***************************************************************************)
(* A restart on a segments directory from which files may be missing:      *)
(* load_from_segments on every combination of nodes.seg and edges.seg      *)
(* present or absent, the present files being those a flush of some store  *)
(* wrote.                                                                  *)
(***************************************************************************)
\* the stores whose flush wrote the files: up to two records applied to the
\* empty store
FlushedStores ==
    {new} \cup {replay_wal(new, <<a>>) : a \in WalRecords}
          \cup {replay_wal(new, <<a, b>>) : a \in WalRecords, b \in WalRecords}

InitLoad ==
    /\ store = new
    /\ pc = "down"
    /\ dir = TRUE
    /\ \E s \in FlushedStores :
          /\ pre_crash = [store |-> s, pc |-> "idle"]
          /\ nodes_seg \in {NoFile}
                \cup {FileOf(nodes_segment_bytes(s, order)) : order \in Orderings(DOMAIN s.nodes)}
          /\ edges_seg \in {NoFile}
                \cup {FileOf(edges_segment_bytes(s, order)) : order \in Orderings(DOMAIN s.edges)}
    /\ wal = << >>
    /\ ret = "none"
    /\ issued_nodes = << >>
    /\ issued_edges = << >>
    /\ synced = TRUE
    /\ count = [ops |-> 0, flushes |-> 0]
    /\ wire = [sent |-> None, payload |-> TornBytes, result |-> None]

NextLoad == Load

SpecLoad == InitLoad /\ [][NextLoad]_vars

(***************************************************************************)
(* Vocabulary of the claims.                                               *)
(***************************************************************************)
\* the ids an index holds under key k (none when the key is absent)
IdsAt(index, k) == IF k \in DOMAIN index THEN Range(index[k]) ELSE {}

\* the process holds a store (it is neither crashed nor failed to load)
Live == pc \notin {"down", "load_failed"}

\* the largest id issued before position i of a history of issued ids
IssuedBefore(issued, i) == {issued[j] : j \in 1..(i - 1)}

(***************************************************************************)
(* C4. Id counter invariant: in every reachable state next_node_id is      *)
(* strictly greater than every id in the node table and next_edge_id is    *)
(* strictly greater than every id in the edge table.                       *)
(***************************************************************************)
IdCounterInvariant ==
    /\ \A id \in DOMAIN store.nodes : store.next_node_id > id
    /\ \A id \in DOMAIN store.edges : store.next_edge_id > id

(***************************************************************************)
(* C6. Label index completeness: for every node N of the store and every   *)
(* label L, N's id is in label_index[L] (scan_by_label(L) returns N) iff L *)
(* is in N's stored label list.                                            *)
(***************************************************************************)
LabelIndexComplete ==
    \A id \in DOMAIN store.nodes : \A L \in Labels :
        (id \in IdsAt(store.label_index, L)) <=> (L \in Range(store.nodes[id].labels))

(***************************************************************************)
(* C7. Adjacency index invariant: an edge id E is in adjacency_out[f] and  *)
(* in adjacency_in[t] iff the edge table holds an edge E from f to t.      *)
(***************************************************************************)
EdgeIdsSeen ==
    (DOMAIN store.edges)
        \cup UNION {Range(store.adjacency_out[n]) : n \in DOMAIN store.adjacency_out}
        \cup UNION {Range(store.adjacency_in[n]) : n \in DOMAIN store.adjacency_in}

AdjacencyInvariant ==
    \A E \in EdgeIdsSeen : \A f \in NodeRefs, t \in NodeRefs :
        (E \in IdsAt(store.adjacency_out, f) /\ E \in IdsAt(store.adjacency_in, t))
            <=> (/\ E \in DOMAIN store.edges
                 /\ store.edges[E].from_node = f
                 /\ store.edges[E].to_node = t)

(***************************************************************************)
(* C8. Adjacency completeness: for every edge E = (from, to, type) of the  *)
(* store whose destination node resolves, get_neighbors(from, None)        *)
(* contains (E, node(to)), and get_neighbors(from, Some(t)) contains it    *)
(* exactly when type = t; symmetrically get_neighbors_incoming(to, ...)    *)
(* contains (E, node(from)) when the source node resolves.                 *)
(***************************************************************************)
AdjacencyComplete ==
    \A id \in DOMAIN store.edges :
        LET E == store.edges[id]
        IN  /\ E.to_node \in DOMAIN store.nodes =>
                LET pair == <<E, store.nodes[E.to_node]>>
                IN  /\ pair \in Range(get_neighbors(store, E.from_node, None))
                    /\ \A t \in EdgeTypes :
                          (pair \in Range(get_neighbors(store, E.from_node, Some(t))))
                              <=> (E.edge_type = t)
            /\ E.from_node \in DOMAIN store.nodes =>
                LET pair == <<E, store.nodes[E.from_node]>>
                IN  /\ pair \in Range(get_neighbors_incoming(store, E.to_node, None))
                    /\ \A t \in EdgeTypes :
                          (pair \in Range(get_neighbors_incoming(store, E.to_node, Some(t))))
                              <=> (E.edge_type = t)

\* an edge between two different resolving nodes: it is a neighbor of its
\* source under its own type and not under the other one
AdjacencyCompleteWitness ==
    /\ Live
    /\ \E id \in DOMAIN store.edges :
          LET E == store.edges[id]
          IN  /\ E.from_node # E.to_node
              /\ {E.from_node, E.to_node} \subseteq DOMAIN store.nodes
              /\ get_neighbors(store, E.from_node, Some(E.edge_type)) # << >>
              /\ \E t \in EdgeTypes : get_neighbors(store, E.from_node, Some(t)) = << >>
              /\ get_neighbors_incoming(store, E.to_node, None) # << >>

(***************************************************************************)
(* C1. Crash safety of flush: when the process crashes at any point of     *)
(* flush_to_segments, load_from_segments accepts the files left on disk    *)
(* and, with the WAL records logged since the last completed flush         *)
(* replayed, the node and edge tables of the crashed process come back.    *)
(***************************************************************************)
CrashSafeFlush ==
    (pc = "down" /\ pre_crash.pc \in FlushPcs) =>
        LET r == load_from_segments(nodes_seg, edges_seg)
            recovered == replay_wal(r.store, wal)
        IN  /\ r.ok
            /\ recovered.nodes = pre_crash.store.nodes
            /\ recovered.edges = pre_crash.store.edges

(***************************************************************************)
(* C2. Flush/load round-trip: for every reachable store S and every order  *)
(* in which the flush can write the tables, load_from_segments of the      *)
(* flushed files succeeds and yields the same node table, edge table,      *)
(* label index and adjacency indexes (same ids under every key, order      *)
(* aside) and the same id counters as S.                                   *)
(***************************************************************************)
IndexEqual(a, b) ==
    /\ a.nodes = b.nodes
    /\ a.edges = b.edges
    /\ \A L \in (DOMAIN a.label_index) \cup (DOMAIN b.label_index) :
          IdsAt(a.label_index, L) = IdsAt(b.label_index, L)
    /\ \A n \in (DOMAIN a.adjacency_out) \cup (DOMAIN b.adjacency_out) :
          IdsAt(a.adjacency_out, n) = IdsAt(b.adjacency_out, n)
    /\ \A n \in (DOMAIN a.adjacency_in) \cup (DOMAIN b.adjacency_in) :
          IdsAt(a.adjacency_in, n) = IdsAt(b.adjacency_in, n)
    /\ a.next_node_id = b.next_node_id
    /\ a.next_edge_id = b.next_edge_id

FlushLoadRoundTrip ==
    Live =>
        \A no \in Orderings(DOMAIN store.nodes) : \A eo \in Orderings(DOMAIN store.edges) :
            LET r == load_from_segments(FileOf(nodes_segment_bytes(store, no)),
                                        FileOf(edges_segment_bytes(store, eo)))
            IN  r.ok /\ IndexEqual(r.store, store)

(***************************************************************************)
(* C3. WAL replay equivalence: with S0 the store of the last completed     *)
(* flush and M the mutations applied since, the store obtained by applying *)
(* M directly to S0 is index-equal to load_from_segments of S0's flush     *)
(* followed by replay_wal on the records of M.                             *)
(***************************************************************************)
WalReplayEquivalence ==
    (pc = "idle" /\ synced) =>
        LET r == load_from_segments(nodes_seg, edges_seg)
        IN  r.ok /\ IndexEqual(replay_wal(r.store, wal), store)

(***************************************************************************)
(* C5. Id monotonicity: every id returned by add_node is strictly greater  *)
(* than every node id issued earlier in the history (across flushes,       *)
(* restarts and replays), and likewise for add_edge.                       *)
(***************************************************************************)
IdMonotonicity ==
    /\ \A i \in DOMAIN issued_nodes : \A j \in IssuedBefore(issued_nodes, i) : j < issued_nodes[i]
    /\ \A i \in DOMAIN issued_edges : \A j \in IssuedBefore(issued_edges, i) : j < issued_edges[i]

(***************************************************************************)
(* C9. Dangling reference tolerance: add_edge(from, to, ...) with an       *)
(* endpoint that is not in the node table succeeds, stores the edge and    *)
(* adds its id to adjacency_out[from] and adjacency_in[to]; as long as     *)
(* node `to` does not exist, get_neighbors(from, ...) omits the edge.      *)
(***************************************************************************)
DanglingAddEdge ==
    \A e \in EdgeInputs :
        (AddEdge(e[1], e[2], e[3], e[4]) /\ ~({e[1], e[2]} \subseteq DOMAIN store.nodes)) =>
            LET id == store.next_edge_id
            IN  /\ ret' = "ok"
                /\ issued_edges' = Append(issued_edges, id)
                /\ id \in DOMAIN store'.edges
                /\ store'.edges[id] = Edge(id, e[1], e[2], e[3], e[4])
                /\ id \in IdsAt(store'.adjacency_out, e[1])
                /\ id \in IdsAt(store'.adjacency_in, e[2])

DanglingOmitted ==
    \A id \in DOMAIN store.edges :
        LET E == store.edges[id]
        IN  E.to_node \notin DOMAIN store.nodes =>
                \A filter \in {None} \cup {Some(t) : t \in EdgeTypes} :
                    \A pair \in Range(get_neighbors(store, E.from_node, filter)) : pair[1].id # id

DanglingTolerance == [][DanglingAddEdge]_vars /\ []DanglingOmitted

\* add_edge has just issued an edge from an existing node to a missing one,
\* and the source has another neighbor that does resolve
DanglingWitness ==
    /\ pc = "idle"
    /\ issued_edges # << >>
    /\ LET id == issued_edges[Len(issued_edges)]
       IN  /\ id \in DOMAIN store.edges
           /\ store.edges[id].from_node \in DOMAIN store.nodes
           /\ store.edges[id].to_node \notin DOMAIN store.nodes
           /\ id \in IdsAt(store.adjacency_out, store.edges[id].from_node)
           /\ get_neighbors(store, store.edges[id].from_node, None) # << >>

(***************************************************************************)
(* C10. Append-only lifecycle: once a node or edge with a given id is in   *)
(* the store, every step of add_node, add_edge and replay_wal leaves an    *)
(* entity with that id and the same content in the store.                  *)
(***************************************************************************)
AppendOnlyStep ==
    (pc \in {"idle", "loaded"} /\ pc' = "idle") =>
        /\ \A id \in DOMAIN store.nodes :
              id \in DOMAIN store'.nodes /\ store'.nodes[id] = store.nodes[id]
        /\ \A id \in DOMAIN store.edges :
              id \in DOMAIN store'.edges /\ store'.edges[id] = store.edges[id]

AppendOnly == [][AppendOnlyStep]_vars

(***************************************************************************)
(* C11. Replay keeps original ids and counters monotone: replay_wal stores *)
(* each record's entity under the id the record carries, for any id of the *)
(* id range, and next_node_id / next_edge_id never decrease: after a       *)
(* record they equal max(previous counter, record id + 1).                 *)
(***************************************************************************)
Max(a, b) == IF a >= b THEN a ELSE b

ReplayOriginalIdsStep ==
    \A record \in WalRecords :
        Replay(<<record>>) =>
            IF record.type = "AddNode"
            THEN /\ record.id \in DOMAIN store'.nodes
                 /\ store'.nodes[record.id] = Node(record.id, record.labels, record.properties)
                 /\ store'.next_node_id = Max(store.next_node_id, record.id + 1)
                 /\ store'.next_edge_id = store.next_edge_id
            ELSE /\ record.id \in DOMAIN store'.edges
                 /\ store'.edges[record.id] = Edge(record.id, record.from_node, record.to_node,
                                                   record.edge_type, record.properties)
                 /\ store'.next_edge_id = Max(store.next_edge_id, record.id + 1)
                 /\ store'.next_node_id = store.next_node_id

ReplayOriginalIds == [][ReplayOriginalIdsStep]_vars

(***************************************************************************)
(* C12. WAL record round-trip: for every WalRecord r built from valid      *)
(* inputs, from_bytes(to_bytes(r)) succeeds and returns a record of the    *)
(* same variant equal to r in id, labels / from_node, to_node, edge_type   *)
(* and properties.                                                         *)
(***************************************************************************)
WalRoundTrip ==
    (wire.sent.some /\ wire.result.some) =>
        /\ wire.result.v.ok
        /\ wire.result.v.record = wire.sent.v

\* an AddEdge record with the largest id, a type and a property has been
\* encoded and decoded
WalRoundTripWitness ==
    /\ wire.sent.some
    /\ wire.result.some
    /\ wire.sent.v.type = "AddEdge"
    /\ wire.sent.v.id = IdModulus - 1
    /\ wire.sent.v.edge_type = "KNOWS"
    /\ wire.sent.v.properties # EmptyMap

(***************************************************************************)
(* C13. Lenient record parsing: from_bytes of a well-formed payload with a *)
(* recognized type never fails because a field is missing or mistyped: a   *)
(* missing labels field yields an empty label list, a missing numeric      *)
(* field (id, from, to) yields 0, a missing edge_type yields the empty     *)
(* string, a missing or non-object properties yields an empty map.         *)
(***************************************************************************)
\* the payload is a JSON object whose `type` is one of the two discriminants
Recognized(data) ==
    /\ data.kind = "text"
    /\ data.json.t = "obj"
    /\ "type" \in DOMAIN data.json.o
    /\ data.json.o["type"] \in {JStr("add_node"), JStr("add_edge")}

LenientParsing ==
    (wire.result.some /\ Recognized(wire.payload)) =>
        LET fields == wire.payload.json.o
            missing(k) == k \notin DOMAIN fields
            record == wire.result.v.record
        IN  /\ wire.result.v.ok
            /\ missing("id") => record.id = 0
            /\ (missing("properties") \/ fields["properties"].t # "obj") =>
                  record.properties = EmptyMap
            /\ fields["type"] = JStr("add_node") =>
                  /\ record.type = "AddNode"
                  /\ missing("labels") => record.labels = << >>
            /\ fields["type"] = JStr("add_edge") =>
                  /\ record.type = "AddEdge"
                  /\ missing("from") => record.from_node = 0
                  /\ missing("to") => record.to_node = 0
                  /\ missing("edge_type") => record.edge_type = ""

\* an add_node payload with nothing but its discriminant has been parsed
LenientParsingWitness ==
    /\ wire.result.some
    /\ wire.payload = to_vec(JObj([type |-> JStr("add_node")]))
    /\ wire.result.v.ok

(***************************************************************************)
(* C14. Record parse errors: from_bytes returns a storage error, and no    *)
(* record, exactly when the payload is not validly structured, has no      *)
(* string type discriminant, or has a type other than "add_node" and       *)
(* "add_edge"; in every other case it returns a record.                    *)
(***************************************************************************)
RecordParseErrors ==
    wire.result.some =>
        LET not_structured == wire.payload.kind # "text"
            no_string_type == Index(wire.payload.json, "type").t # "str"
            other_type == Index(wire.payload.json, "type") \notin {JStr("add_node"), JStr("add_edge")}
        IN  /\ ~wire.result.v.ok <=> (not_structured \/ no_string_type \/ other_type)
            /\ ~wire.result.v.ok => wire.result.v.record = NoRecord
            /\ wire.result.v.ok => wire.result.v.record.type \in {"AddNode", "AddEdge"}

\* a well-formed payload with an unknown discriminant has been refused
RecordParseErrorsWitness ==
    /\ wire.result.some
    /\ ~wire.result.v.ok
    /\ wire.payload.kind = "text"
    /\ Index(wire.payload.json, "type") = JStr("delete_node")
    /\ "id" \in DOMAIN wire.payload.json.o

(***************************************************************************)
(* C15. Load with missing segment files: load_from_segments succeeds when  *)
(* nodes.seg, edges.seg or both are absent (a file that is present holding *)
(* a complete segment); the table and indexes of an absent file are empty  *)
(* and its id counter is 1, while the other file, if present, is loaded in *)
(* full: the table equals the one that was flushed and the index holds the *)
(* id of every entity of the table.                                        *)
(***************************************************************************)
Complete(file) == file.exists => file.data.kind = "text"

LoadMissingSegments ==
    ((~nodes_seg.exists \/ ~edges_seg.exists) /\ Complete(nodes_seg) /\ Complete(edges_seg)) =>
        /\ pc # "load_failed"
        /\ pc = "loaded" =>
              /\ ~nodes_seg.exists =>
                    /\ store.nodes = EmptyMap
                    /\ store.label_index = EmptyMap
                    /\ store.next_node_id = 1
              /\ ~edges_seg.exists =>
                    /\ store.edges = EmptyMap
                    /\ store.adjacency_out = EmptyMap
                    /\ store.adjacency_in = EmptyMap
                    /\ store.next_edge_id = 1
              /\ nodes_seg.exists =>
                    /\ store.nodes = pre_crash.store.nodes
                    /\ \A id \in DOMAIN store.nodes : \A L \in Range(store.nodes[id].labels) :
                          id \in IdsAt(store.label_index, L)
              /\ edges_seg.exists =>
                    /\ store.edges = pre_crash.store.edges
                    /\ \A id \in DOMAIN store.edges :
                          /\ id \in IdsAt(store.adjacency_out, store.edges[id].from_node)
                          /\ id \in IdsAt(store.adjacency_in, store.edges[id].to_node)

\* a store with nodes and edges was flushed, nodes.seg is gone, and the load
\* has returned a store with the edges alone
LoadMissingSegmentsWitness ==
    /\ pc = "loaded"
    /\ ~nodes_seg.exists
    /\ edges_seg.exists
    /\ pre_crash.store.nodes # EmptyMap
    /\ store.edges # EmptyMap
    /\ store.next_edge_id > 1

(***************************************************************************)
(* C16. Flush failure aborts the whole operation: when directory creation, *)
(* file creation, write or fsync fails at a step of flush_to_segments, the *)
(* call returns a storage error and executes no later step (a failure on   *)
(* nodes.seg leaves edges.seg untouched); the call returns success only    *)
(* after nodes.seg and then edges.seg have been written in full and        *)
(* fsynced.                                                                *)
(***************************************************************************)
\* the step is one of flush_to_segments
FlushStep == pc \in FlushPcs \/ (pc = "idle" /\ count'.flushes # count.flushes)

\* the file holds the whole serialization of the table, in some order
NodesWritten(file, s) ==
    \E order \in Orderings(DOMAIN s.nodes) : file = FileOf(nodes_segment_bytes(s, order))

EdgesWritten(file, s) ==
    \E order \in Orderings(DOMAIN s.edges) : file = FileOf(edges_segment_bytes(s, order))

FlushAbortStep ==
    FlushStep =>
        \* the step fails: the call has returned, and the step wrote nothing
        /\ ret' = "err" => (pc' = "idle" /\ UNCHANGED <<store, dir, nodes_seg, edges_seg>>)
        \* up to the end of write_nodes_segment edges.seg is not touched
        /\ pc \in {"idle", "create_nodes", "write_nodes", "sync_nodes"} => edges_seg' = edges_seg
        \* the call returns: with an error, or after the last fsync with both
        \* files written in full
        /\ pc' = "idle" =>
              \/ ret' = "err"
              \/ /\ ret' = "ok"
                 /\ pc = "sync_edges"
                 /\ dir
                 /\ NodesWritten(nodes_seg, store)
                 /\ EdgesWritten(edges_seg, store)

FlushAbort == [][FlushAbortStep]_vars

\* the write of nodes.seg has failed on a store with nodes and edges: the call
\* has returned the error and edges.seg was never created
FlushAbortWitness ==
    /\ pc = "idle"
    /\ ret = "err"
    /\ count.flushes = 1
    /\ nodes_seg = FileOf(TornBytes)
    /\ ~edges_seg.exists
    /\ store.nodes # EmptyMap
    /\ store.edges # EmptyMap

(***************************************************************************)
(* C17. Neighbor soundness: in every state reachable by add_node,          *)
(* add_edge, load_from_segments and replay_wal, every pair (edge, node)    *)
(* returned by get_neighbors(n, t) has edge.from_node = n and node.id =    *)
(* edge.to_node (and edge.edge_type = t when t is given), and every pair   *)
(* returned by get_neighbors_incoming(n, t) has edge.to_node = n and       *)
(* node.id = edge.from_node.                                               *)
(***************************************************************************)
Filters == {None} \cup {Some(t) : t \in EdgeTypes}

NeighborSoundness ==
    \A n \in (DOMAIN store.adjacency_out) \cup (DOMAIN store.adjacency_in) \cup NodeRefs :
        \A filter \in Filters :
            /\ \A pair \in Range(get_neighbors(store, n, filter)) :
                  /\ pair[1].from_node = n
                  /\ pair[2].id = pair[1].to_node
                  /\ filter.some => pair[1].edge_type = filter.v
            /\ \A pair \in Range(get_neighbors_incoming(store, n, filter)) :
                  /\ pair[1].to_node = n
                  /\ pair[2].id = pair[1].from_node
                  /\ filter.some => pair[1].edge_type = filter.v

(***************************************************************************)
(* C18. Replay idempotence: replay_wal with records whose mutations are    *)
(* already reflected in the store (records logged before the flush that    *)
(* was just loaded, or a record replayed a second time) leaves the node    *)
(* table, the edge table, the label index, the adjacency indexes and the   *)
(* id counters unchanged, so that scan_by_label and get_neighbors return   *)
(* each node and edge at most once.                                        *)
(***************************************************************************)
\* the store already holds the record's entity, indexed, with the counter past it
Reflected(s, record) ==
    IF record.type = "AddNode"
    THEN /\ record.id \in DOMAIN s.nodes
         /\ s.nodes[record.id] = Node(record.id, record.labels, record.properties)
         /\ \A L \in Range(record.labels) : record.id \in IdsAt(s.label_index, L)
         /\ s.next_node_id > record.id
    ELSE /\ record.id \in DOMAIN s.edges
         /\ s.edges[record.id] = Edge(record.id, record.from_node, record.to_node,
                                       record.edge_type, record.properties)
         /\ record.id \in IdsAt(s.adjacency_out, record.from_node)
         /\ record.id \in IdsAt(s.adjacency_in, record.to_node)
         /\ s.next_edge_id > record.id

ReplayIdempotentStep ==
    /\ \A record \in WalRecords :
          (Replay(<<record>>) /\ Reflected(store, record)) => store' = store
    /\ (Recover /\ \A i \in DOMAIN wal : Reflected(store, wal[i])) => store' = store

ReplayIdempotent == [][ReplayIdempotentStep]_vars

(***************************************************************************)
(* C19. Frame of the mutations: add_node and a replayed AddNode record     *)
(* change only the node table, the label index and next_node_id; add_edge  *)
(* and a replayed AddEdge record change only the edge table, the two       *)
(* adjacency indexes and next_edge_id; flush_to_segments changes nothing   *)
(* in the store.                                                           *)
(***************************************************************************)
EdgeSideUnchanged ==
    /\ store'.edges = store.edges
    /\ store'.adjacency_out = store.adjacency_out
    /\ store'.adjacency_in = store.adjacency_in
    /\ store'.next_edge_id = store.next_edge_id

NodeSideUnchanged ==
    /\ store'.nodes = store.nodes
    /\ store'.label_index = store.label_index
    /\ store'.next_node_id = store.next_node_id

\* the step is add_node, add_edge or replay_wal of one record: the record it
\* applies is the one the log has just received
MutationStep == pc = "idle" /\ count'.ops # count.ops

MutationFrameStep ==
    /\ (MutationStep /\ wal'[Len(wal')].type = "AddNode") => EdgeSideUnchanged
    /\ (MutationStep /\ wal'[Len(wal')].type = "AddEdge") => NodeSideUnchanged
    /\ (FlushStep /\ pc' # "down") => store' = store

MutationFrame == [][MutationFrameStep]_vars

\* an AddNode record has been replayed, past the counter, on a store that holds
\* edges, after a flush
MutationFrameWitness ==
    /\ pc = "idle"
    /\ count.flushes >= 1
    /\ wal # << >>
    /\ wal[Len(wal)].type = "AddNode"
    /\ wal[Len(wal)].id \notin Range(issued_nodes)
    /\ store.next_node_id = wal[Len(wal)].id + 1
    /\ store.edges # EmptyMap
    /\ store.next_edge_id = 2
    /\ nodes_seg.exists

====
